---------------------------- MODULE Spec2Model ----------------------------
(***************************************************************************)
(* A model of vocard's progress store (src/lib/storage.ts) and of its quiz  *)
(* generator (src/lib/quizGenerator.ts).                                   *)
(*                                                                         *)
(* The persisted document lives in localStorage under one key.  Every      *)
(* operation of the store reads the whole document, changes its copy and   *)
(* writes the whole document back.                                         *)
(*                                                                         *)
(* Numbers.  The store computes rates and priorities in floating point.    *)
(* The model computes them as exact fractions.  For the comparisons the    *)
(* store makes the two agree on every value the model reaches: a rate c/t  *)
(* of small integers equals 0.8 only when 5c = 4t, where the division      *)
(* rounds to the very double the literal 0.8 denotes, and every other rate *)
(* differs from 0.8 by far more than a rounding error.                     *)
(*                                                                         *)
(* Time.  Date.now() is the variable now, counted in hours so that the     *)
(* products of the priority comparison stay inside TLC's integers; the     *)
(* divisor 1000*60*60*24 of the source becomes HoursPerDay.  An ISO date   *)
(* string is the record ToISOString makes of a clock value.                *)
(***************************************************************************)
EXTENDS Integers, Sequences, FiniteSets, TLC

VARIABLES
    stored,         \* localStorage's value for STORAGE_KEY
    now,            \* Date.now(), in hours
    hasWindow,      \* typeof window !== "undefined"
    quotaExceeded,  \* localStorage.setItem throws
    call,           \* the last call of the store: operation, ids given, clock value read
    ret,            \* what that call returned: value, raised, what it logged
    completed,      \* answer recordings that returned since the last clear
    tabs,           \* per browsing context: a recording between its read and its write
    request,        \* what the quiz page asks generateQuiz for: words, count, type
    randomness,     \* the values Math.random() returns from here on
    quiz,           \* the state of the quiz page: QuizState and isLoading
    study           \* the state of the study page

vars == <<stored, now, hasWindow, quotaExceeded, call, ret, completed, tabs,
          request, randomness, quiz, study>>

----------------------------------------------------------------------------
(* Bounds of the model *)

MaxAnswers == 4
MaxSessions == 1
MaxTicks == 1
TickHours == 600
MaxIds == 2
MaxReadAnswers == 3
MaxEnvAnswers == 3
MaxTabAnswers == 3
MaxDraws == 2
MaxQuizAnswers == 2
MaxSaveAnswers == 3
MaxSessionCalls == 2
MaxTotal == 10
MaxSessionAnswers == 2
MaxPriorAnswers == 1
MaxStudyAnswers == 3
MaxCount == 2
MaxCountAnswers == 1

WordIds == {"w1", "w2"}          \* the words the user answers
CatalogIds == WordIds \cup {"w0"}  \* and a word of the catalog never answered
ResponseTimes == {1200, 3400}
Tabs == {"tabA", "tabB"}

HoursPerDay == 24

----------------------------------------------------------------------------
(* Values *)

NullDate == [null |-> TRUE, ms |-> 0]
ToISOString(t) == [null |-> FALSE, ms |-> t]
DateGetTime(d) == d.ms

NullNumber == [null |-> TRUE, n |-> 0, d |-> 1]
Quotient(a, b) == [null |-> FALSE, n |-> a, d |-> b]

createDefaultWordProgress(wordId) ==
    [wordId |-> wordId,
     status |-> "new",
     correctCount |-> 0,
     incorrectCount |-> 0,
     lastStudied |-> NullDate,
     averageResponseTime |-> NullNumber,
     quizAttempts |-> <<>>]

createDefaultUserProgress ==
    [shape |-> "doc",
     words |-> <<>>,
     lastStudySession |-> NullDate,
     totalStudySessions |-> 0]

\* What JSON.parse yields for text that is JSON but no progress document.
\* The shape of a parsed value: "doc" is a UserProgress; "null" is null;
\* "object" is an object without words and without totalStudySessions, and
\* "objectNaN", "objectNull", "objectNum" are that object with
\* totalStudySessions NaN, null or a number.
JsonNull == [shape |-> "null", words |-> <<>>, lastStudySession |-> NullDate,
             totalStudySessions |-> 0]
JsonEmptyObject == [shape |-> "object", words |-> <<>>, lastStudySession |-> NullDate,
                    totalStudySessions |-> 0]

\* localStorage.getItem: null when the key is absent, else the stored text.
NoItem == [kind |-> "null", text |-> "", value |-> createDefaultUserProgress]
RawText(s) == [kind |-> "raw", text |-> s, value |-> createDefaultUserProgress]
\* A save that writes the words map and leaves the session fields at their
\* defaults.
JSONStringify_WordsOnly(doc) ==
    [kind |-> "json", text |-> "",
     value |-> [doc EXCEPT !.lastStudySession = NullDate, !.totalStudySessions = 0]]

\* JSON.stringify keeps a document as it is, except that it writes NaN as null.
JSONStringify(doc) ==
    [kind |-> "json", text |-> "",
     value |-> IF doc.shape = "objectNaN" THEN [doc EXCEPT !.shape = "objectNull"] ELSE doc]

RawTexts == {"", "{bad", "null", "{}"}

\* JSON.parse: the value, or a SyntaxError.
JSONParse(s) ==
    CASE s.kind = "json" -> [ok |-> TRUE, value |-> s.value]
      [] s.kind = "raw" /\ s.text = "null" -> [ok |-> TRUE, value |-> JsonNull]
      [] s.kind = "raw" /\ s.text = "{}" -> [ok |-> TRUE, value |-> JsonEmptyObject]
      [] OTHER -> [ok |-> FALSE, value |-> JsonNull]

Truthy(s) == s.kind # "null" /\ ~(s.kind = "raw" /\ s.text = "")

----------------------------------------------------------------------------
(* getUserProgress / saveUserProgress *)

\* The outcome of a call: its value, whether it raised, and what it logged
\* with console.error.
Outcome(value, raised, logged) == [value |-> value, raised |-> raised, logged |-> logged]

\* getUserProgress without its try/catch: a SyntaxError reaches the caller.
getUserProgress_NoCatch(item, window) ==
    IF ~window
    THEN Outcome(createDefaultUserProgress, FALSE, "none")
    ELSE IF Truthy(item)
         THEN IF JSONParse(item).ok
              THEN Outcome(JSONParse(item).value, FALSE, "none")
              ELSE Outcome(createDefaultUserProgress, TRUE, "none")
         ELSE Outcome(createDefaultUserProgress, FALSE, "none")

getUserProgress(item, window) ==
    IF ~window
    THEN Outcome(createDefaultUserProgress, FALSE, "none")
    ELSE IF Truthy(item)
         THEN IF JSONParse(item).ok
              THEN Outcome(JSONParse(item).value, FALSE, "none")
              ELSE Outcome(createDefaultUserProgress, FALSE, "read")
         ELSE Outcome(createDefaultUserProgress, FALSE, "none")

\* The stored value after saveUserProgress(progress), and what it logged.
saveUserProgress(item, progress, window, full) ==
    IF ~window
    THEN [item |-> item, logged |-> "none"]
    ELSE IF full
         THEN [item |-> item, logged |-> "save"]
         ELSE [item |-> JSONStringify(progress), logged |-> "none"]

----------------------------------------------------------------------------
(* Answer recording *)

HasRecord(progress, wordId) == wordId \in DOMAIN progress.words

\* progress.words[wordId] || createDefaultWordProgress(wordId)
RecordOrDefault(progress, wordId) ==
    IF HasRecord(progress, wordId)
    THEN progress.words[wordId]
    ELSE createDefaultWordProgress(wordId)

\* An assignment that replaces the words map by a map of the one record.
PutRecord_Alone(progress, wordId, wordProgress) ==
    [progress EXCEPT !.words = [w \in {wordId} |-> wordProgress]]

\* progress.words[wordId] = wordProgress
PutRecord(progress, wordId, wordProgress) ==
    [progress EXCEPT !.words =
        [w \in (DOMAIN progress.words) \cup {wordId} |->
            IF w = wordId THEN wordProgress ELSE progress.words[w]]]

\* A threshold of 0.75 in place of 0.8.
RateAtLeastThreshold_Lax(correctCount, totalAttempts) ==
    4 * correctCount >= 3 * totalAttempts

\* correctCount / totalAttempts >= 0.8
RateAtLeastThreshold(correctCount, totalAttempts) ==
    5 * correctCount >= 4 * totalAttempts

\* A ratchet: a mastered word stays mastered.
UpdateStatus_Ratchet(wp) ==
    LET totalAttempts == wp.correctCount + wp.incorrectCount
    IN  IF wp.status = "mastered"
           \/ (totalAttempts >= 3 /\ RateAtLeastThreshold(wp.correctCount, totalAttempts))
        THEN [wp EXCEPT !.status = "mastered"]
        ELSE IF totalAttempts > 0
             THEN [wp EXCEPT !.status = "learning"]
             ELSE wp

\* totalAttempts === 3 in place of totalAttempts >= 3.
UpdateStatus_ExactlyThree(wp) ==
    LET totalAttempts == wp.correctCount + wp.incorrectCount
    IN  IF totalAttempts = 3 /\ RateAtLeastThreshold(wp.correctCount, totalAttempts)
        THEN [wp EXCEPT !.status = "mastered"]
        ELSE IF totalAttempts > 0
             THEN [wp EXCEPT !.status = "learning"]
             ELSE wp

\* The status block of both recording operations.
\* A status that is first set at the third answer.
UpdateStatus_FromThree(wp) ==
    LET totalAttempts == wp.correctCount + wp.incorrectCount
    IN  IF totalAttempts >= 3 /\ RateAtLeastThreshold(wp.correctCount, totalAttempts)
        THEN [wp EXCEPT !.status = "mastered"]
        ELSE IF totalAttempts >= 3
             THEN [wp EXCEPT !.status = "learning"]
             ELSE wp

UpdateStatus(wp) ==
    LET totalAttempts == wp.correctCount + wp.incorrectCount
    IN  IF totalAttempts >= 3 /\ RateAtLeastThreshold(wp.correctCount, totalAttempts)
        THEN [wp EXCEPT !.status = "mastered"]
        ELSE IF totalAttempts > 0
             THEN [wp EXCEPT !.status = "learning"]
             ELSE wp

\* An incorrect answer that also counts as an attempt on the correct side.
UpdateCounts_Both(wp, correct) ==
    IF correct
    THEN [wp EXCEPT !.correctCount = @ + 1]
    ELSE [wp EXCEPT !.correctCount = @ + 1, !.incorrectCount = @ + 1]

\* Counters of a streak: an incorrect answer takes correctCount back to 0.
UpdateCounts_Streak(wp, correct) ==
    IF correct
    THEN [wp EXCEPT !.correctCount = @ + 1]
    ELSE [wp EXCEPT !.correctCount = 0, !.incorrectCount = @ + 1]

\* if (correct) correctCount += 1; else incorrectCount += 1
UpdateCounts(wp, correct) ==
    IF correct
    THEN [wp EXCEPT !.correctCount = @ + 1]
    ELSE [wp EXCEPT !.incorrectCount = @ + 1]

\* The document updateWordFromFlashcard saves, from the document it read.
FlashcardUpdate(progress, wordId, remembered, t) ==
    LET wp0 == RecordOrDefault(progress, wordId)
        wp1 == UpdateCounts(wp0, remembered)
        wp2 == UpdateStatus(wp1)
        wp3 == [wp2 EXCEPT !.lastStudied = ToISOString(t)]
    IN  PutRecord(progress, wordId, wp3)

\* The time of the newest attempt in place of the sum over all attempts.
SumResponseTime_Newest(attempts) ==
    IF attempts = <<>> THEN 0 ELSE attempts[Len(attempts)].responseTime

RECURSIVE SumResponseTime(_)
SumResponseTime(attempts) ==
    IF attempts = <<>>
    THEN 0
    ELSE SumResponseTime(SubSeq(attempts, 1, Len(attempts) - 1))
            + attempts[Len(attempts)].responseTime

\* The document updateWordFromQuiz saves, from the document it read.
QuizUpdate(progress, wordId, correct, responseTime, t) ==
    LET wp0 == RecordOrDefault(progress, wordId)
        attempt == [date |-> ToISOString(t), correct |-> correct,
                    responseTime |-> responseTime]
        wp1 == [wp0 EXCEPT !.quizAttempts = Append(@, attempt)]
        wp2 == UpdateCounts(wp1, correct)
        wp3 == [wp2 EXCEPT !.averageResponseTime =
                    Quotient(SumResponseTime(wp2.quizAttempts), Len(wp2.quizAttempts))]
        wp4 == UpdateStatus(wp3)
        wp5 == [wp4 EXCEPT !.lastStudied = ToISOString(t)]
    IN  PutRecord(progress, wordId, wp5)

\* totalStudySessions = 1 in place of totalStudySessions += 1.
SessionUpdate_CountsOne(progress, t) ==
    [progress EXCEPT !.lastStudySession = ToISOString(t), !.totalStudySessions = 1]

\* The document startStudySession saves.  undefined + 1 is NaN and
\* null + 1 is 1.
SessionUpdate(progress, t) ==
    CASE progress.shape = "object" ->
            [progress EXCEPT !.shape = "objectNaN", !.lastStudySession = ToISOString(t)]
      [] progress.shape = "objectNull" ->
            [progress EXCEPT !.shape = "objectNum", !.lastStudySession = ToISOString(t),
                             !.totalStudySessions = 1]
      [] OTHER ->
            [progress EXCEPT !.lastStudySession = ToISOString(t),
                             !.totalStudySessions = @ + 1]

\* Reading progress.words[...] of a value that has no words map is a TypeError.
HasWordsMap(progress) == progress.shape = "doc"

----------------------------------------------------------------------------
(* The store as its callers see it *)

\* The last call: the operation, for a read over word ids the ids given, and
\* the clock value the operation read (0 when it reads no clock).
Call(op, ids, at) == [op |-> op, ids |-> ids, at |-> at]

NoCall == Call("none", <<>>, 0)
Void == Outcome("void", FALSE, "none")

\* The document every read of the store starts from.
Current == getUserProgress(stored, hasWindow).value

RECURSIVE SumCounters(_, _)
SumCounters(progress, ws) ==
    IF ws = {}
    THEN 0
    ELSE LET w == CHOOSE x \in ws : TRUE
         IN  progress.words[w].correctCount + progress.words[w].incorrectCount
                + SumCounters(progress, ws \ {w})

CounterSum(progress) == SumCounters(progress, DOMAIN progress.words)

\* A read-modify-write operation: the document read, the document to save.
\* A TypeError on the way leaves the stored value as it was.
ReadModifyWrite(op, update) ==
    LET read == getUserProgress(stored, hasWindow)
        saved == saveUserProgress(stored, update, hasWindow, quotaExceeded)
    IN  /\ call' = Call(op, <<>>, now)
        /\ IF HasWordsMap(read.value) /\ ~read.raised
           THEN /\ stored' = saved.item
                /\ ret' = Outcome("void", FALSE,
                                  IF saved.logged # "none" THEN saved.logged ELSE read.logged)
           ELSE /\ stored' = stored
                /\ ret' = Outcome("void", TRUE, read.logged)

updateWordFromFlashcard(wordId, remembered) ==
    /\ ReadModifyWrite("updateWordFromFlashcard",
                       FlashcardUpdate(Current, wordId, remembered, now))
    /\ completed' = IF ret'.raised THEN completed ELSE completed + 1
    /\ UNCHANGED <<now, hasWindow, quotaExceeded, tabs, request, randomness, quiz, study>>

updateWordFromQuiz(wordId, correct, responseTime) ==
    /\ ReadModifyWrite("updateWordFromQuiz",
                       QuizUpdate(Current, wordId, correct, responseTime, now))
    /\ completed' = IF ret'.raised THEN completed ELSE completed + 1
    /\ UNCHANGED <<now, hasWindow, quotaExceeded, tabs, request, randomness, quiz, study>>

startStudySession ==
    LET read == getUserProgress(stored, hasWindow)
        saved == saveUserProgress(stored, SessionUpdate(read.value, now),
                                  hasWindow, quotaExceeded)
    IN  /\ call' = Call("startStudySession", <<>>, now)
        /\ IF read.value.shape = "null" \/ read.raised
           THEN /\ stored' = stored
                /\ ret' = Outcome("void", TRUE, read.logged)
           ELSE /\ stored' = saved.item
                /\ ret' = Outcome("void", FALSE,
                                  IF saved.logged # "none" THEN saved.logged ELSE read.logged)
        /\ UNCHANGED <<now, hasWindow, quotaExceeded, completed, tabs, request, randomness, quiz, study>>

\* A clear that empties the words map and keeps the rest of the document.
clearAllProgress_KeepsSessions ==
    /\ call' = Call("clearAllProgress", <<>>, 0)
    /\ ret' = Void
    /\ stored' = IF hasWindow /\ Truthy(stored) /\ JSONParse(stored).ok
                 THEN JSONStringify([Current EXCEPT !.words = <<>>])
                 ELSE stored
    /\ completed' = 0
    /\ UNCHANGED <<now, hasWindow, quotaExceeded, tabs, request, randomness, quiz, study>>

clearAllProgress ==
    /\ call' = Call("clearAllProgress", <<>>, 0)
    /\ ret' = Void
    /\ stored' = IF hasWindow THEN NoItem ELSE stored
    /\ completed' = 0
    /\ UNCHANGED <<now, hasWindow, quotaExceeded, tabs, request, randomness, quiz, study>>

----------------------------------------------------------------------------
(* getSetStatistics *)

IdLists == UNION {[1..n -> CatalogIds] : n \in 0..MaxIds}

\* A loop body that counts only stored records: an id without a record
\* falls through every branch.
Tally_SkipsMissing(progress, wordId) ==
    IF ~HasRecord(progress, wordId)
    THEN "none"
    ELSE progress.words[wordId].status

\* The branch of the loop body an id takes.
Tally(progress, wordId) ==
    IF ~HasRecord(progress, wordId) \/ progress.words[wordId].status = "new"
    THEN "new"
    ELSE IF progress.words[wordId].status = "learning"
         THEN "learning"
         ELSE IF progress.words[wordId].status = "mastered"
              THEN "mastered"
              ELSE "none"

CountTally(progress, wordIds, tally) ==
    Cardinality({k \in 1..Len(wordIds) : Tally(progress, wordIds[k]) = tally})

SetStatistics(progress, wordIds) ==
    [mastered |-> CountTally(progress, wordIds, "mastered"),
     learning |-> CountTally(progress, wordIds, "learning"),
     new |-> CountTally(progress, wordIds, "new"),
     total |-> Len(wordIds)]

\* A read of the store: it returns value, or raises a TypeError when the
\* stored value parsed to something without a words map.
ReadOnly(op, ids, at, value) ==
    LET read == getUserProgress(stored, hasWindow)
    IN  /\ call' = Call(op, ids, at)
        /\ ret' = IF HasWordsMap(read.value) /\ ~read.raised
                  THEN Outcome(value, FALSE, read.logged)
                  ELSE Outcome("void", TRUE, read.logged)
        /\ UNCHANGED <<stored, now, hasWindow, quotaExceeded, completed, tabs, request, randomness, quiz, study>>

\* A call of getUserProgress by a page.
CallGetUserProgress ==
    /\ call' = Call("getUserProgress", <<>>, 0)
    /\ ret' = getUserProgress(stored, hasWindow)
    /\ UNCHANGED <<stored, now, hasWindow, quotaExceeded, completed, tabs, request, randomness, quiz, study>>

getSetStatistics(wordIds) ==
    ReadOnly("getSetStatistics", wordIds, 0, SetStatistics(Current, wordIds))

\* A caller that saves the document it has just read.
CallSaveUserProgress ==
    LET read == getUserProgress(stored, hasWindow)
        saved == saveUserProgress(stored, read.value, hasWindow, quotaExceeded)
    IN  /\ call' = Call("saveUserProgress", <<>>, 0)
        /\ stored' = saved.item
        /\ ret' = Outcome("void", FALSE,
                          IF saved.logged # "none" THEN saved.logged ELSE read.logged)
        /\ UNCHANGED <<now, hasWindow, quotaExceeded, completed, tabs, request, randomness, quiz, study>>

\* A getWordProgress that stores the record it made up.
getWordProgress_Persists(wordId) ==
    LET read == getUserProgress(stored, hasWindow)
        wp == RecordOrDefault(read.value, wordId)
    IN  /\ HasWordsMap(read.value)
        /\ call' = Call("getWordProgress", <<wordId>>, 0)
        /\ ret' = Outcome(wp, FALSE, read.logged)
        /\ stored' = saveUserProgress(stored, PutRecord(read.value, wordId, wp),
                                      hasWindow, quotaExceeded).item
        /\ UNCHANGED <<now, hasWindow, quotaExceeded, completed, tabs, request, randomness, quiz, study>>

\* progress.words[wordId] || createDefaultWordProgress(wordId)
getWordProgress(wordId) ==
    ReadOnly("getWordProgress", <<wordId>>, 0, RecordOrDefault(Current, wordId))

----------------------------------------------------------------------------
(* getWordsNeedingPractice *)

\* A number as a fraction n/d, d > 0.
Frac(n, d) == [n |-> n, d |-> d]
FracLess(p, q) == p.n * q.d < q.n * p.d

\* (Date.now() - new Date(lastStudied).getTime()) / (1000*60*60*24), or 30.
DaysSinceStudied(wp, t) ==
    IF ~wp.lastStudied.null
    THEN Frac(t - DateGetTime(wp.lastStudied), HoursPerDay)
    ELSE Frac(30, 1)

Priority(progress, id, t) ==
    IF ~HasRecord(progress, id)
    THEN Frac(50, 1)
    ELSE LET wp == progress.words[id]
             totalAttempts == wp.correctCount + wp.incorrectCount
             days == DaysSinceStudied(wp, t)
         IN  IF totalAttempts = 0
             THEN Frac(50, 1)
             ELSE \* (1 - correctCount/totalAttempts) * 100 + days
                  Frac((totalAttempts - wp.correctCount) * 100 * days.d
                           + days.n * totalAttempts,
                       totalAttempts * days.d)

\* (a, b) => a.priority - b.priority: ascending.
Comparator_Ascending(a, b) ==
    IF FracLess(b.priority, a.priority) THEN 1
    ELSE IF FracLess(a.priority, b.priority) THEN -1
    ELSE 0

\* The sign of (a, b) => b.priority - a.priority.
Comparator(a, b) ==
    IF FracLess(a.priority, b.priority) THEN 1
    ELSE IF FracLess(b.priority, a.priority) THEN -1
    ELSE 0

\* An unstable sort: an item goes before the items it ties with.
InsertPosition_BeforeTies(sorted, x) ==
    IF \E k \in 1..Len(sorted) : Comparator(sorted[k], x) >= 0
    THEN CHOOSE k \in 1..Len(sorted) :
            /\ Comparator(sorted[k], x) >= 0
            /\ \A j \in 1..(k - 1) : Comparator(sorted[j], x) < 0
    ELSE Len(sorted) + 1

\* Array.prototype.sort is stable (ECMAScript 2019): an item goes after every
\* item it does not have to precede.
InsertPosition(sorted, x) ==
    IF \E k \in 1..Len(sorted) : Comparator(sorted[k], x) > 0
    THEN CHOOSE k \in 1..Len(sorted) :
            /\ Comparator(sorted[k], x) > 0
            /\ \A j \in 1..(k - 1) : Comparator(sorted[j], x) <= 0
    ELSE Len(sorted) + 1

InsertAt(seq, k, x) == SubSeq(seq, 1, k - 1) \o <<x>> \o SubSeq(seq, k, Len(seq))

RECURSIVE SortItems(_)
SortItems(items) ==
    IF items = <<>>
    THEN <<>>
    ELSE LET front == SortItems(SubSeq(items, 1, Len(items) - 1))
             x == items[Len(items)]
         IN  InsertAt(front, InsertPosition(front, x), x)

WordsNeedingPractice(progress, wordIds, t) ==
    LET items == [k \in 1..Len(wordIds) |->
                    [id |-> wordIds[k], priority |-> Priority(progress, wordIds[k], t)]]
        sorted == SortItems(items)
    IN  [k \in 1..Len(sorted) |-> sorted[k].id]

getWordsNeedingPractice(wordIds) ==
    ReadOnly("getWordsNeedingPractice", wordIds, now,
             WordsNeedingPractice(Current, wordIds, now))

----------------------------------------------------------------------------
(* generateQuiz (src/lib/quizGenerator.ts) *)

\* A Word of the catalog: the fields the generator reads.
Word(id, term, definition) == [id |-> id, term |-> term, definition |-> definition]

\* A vocabulary set: words of different ids and different terms.  Two of them
\* are synonyms and carry the same definition; nothing in Word forbids it.
Vocabulary ==
    <<Word("w0", "t0", "d0"), Word("w1", "t1", "d1"), Word("w2", "t2", "d2"),
      Word("w3", "t3", "d3"), Word("w4", "t4", "d3")>>

Reverse(list) == [k \in 1..Len(list) |-> list[Len(list) + 1 - k]]

\* The lists of words given to generateQuiz: the first words of the set, in
\* the order of the set, or its last words in the opposite order.
WordLists ==
    {SubSeq(Vocabulary, 1, n) : n \in 0..Len(Vocabulary)}
        \cup {SubSeq(Reverse(Vocabulary), 1, n) : n \in 0..Len(Vocabulary)}

QuestionCounts == {1, 2, 10}
QuestionTypes == {"definition", "term"}

\* Math.random(): a value v stands for the number v / RandomGrain of [0, 1).
\* The calls of one generateQuiz read a stream of MaxDraws values over and
\* over.
RandomGrain == 4
RandomStreams == [1..MaxDraws -> 0..(RandomGrain - 1)]
MathRandom(random, k) == random[((k - 1) % Len(random)) + 1]

MathMin(a, b) == IF a <= b THEN a ELSE b

\* array.slice(0, end) with one element beyond end.
ArraySlice_Inclusive(array, end) ==
    LET len == Len(array)
        to == IF end < 0 THEN (IF len + end < 0 THEN 0 ELSE len + end)
              ELSE MathMin(end + 1, len)
    IN  SubSeq(array, 1, to)

\* array.slice(0, end): a negative end counts from the end of the array.
ArraySlice(array, end) ==
    LET len == Len(array)
        to == IF end < 0 THEN (IF len + end < 0 THEN 0 ELSE len + end)
              ELSE MathMin(end, len)
    IN  SubSeq(array, 1, to)

\* array.indexOf(x): the first index of x, counted from 0, or -1.
IndexOf(array, x) ==
    IF \E k \in 1..Len(array) : array[k] = x
    THEN (CHOOSE k \in 1..Len(array) :
             array[k] = x /\ \A j \in 1..(k - 1) : array[j] # x) - 1
    ELSE -1

Swap(array, i, j) == [array EXCEPT ![i] = array[j], ![j] = array[i]]

\* The loop of shuffleArray from position i down, i counted from 1, its first
\* call of Math.random being the k-th of the stream.
RECURSIVE ShuffleFrom(_, _, _, _)
ShuffleFrom(result, i, random, k) ==
    IF i <= 1
    THEN result
    ELSE LET j == (MathRandom(random, k) * i) \div RandomGrain + 1
         IN  ShuffleFrom(Swap(result, i, j), i - 1, random, k + 1)

shuffleArray(array, random, k) == ShuffleFrom(array, Len(array), random, k)

\* The calls of Math.random one shuffleArray makes.
Draws(len) == IF len = 0 THEN 0 ELSE len - 1

selectDistractors(words, count, random, k) ==
    ArraySlice(shuffleArray(words, random, k), count)

\* A filter that keeps the target word among the candidates.
OtherWords_KeepsTarget(allWords, targetWord) == allWords

\* allWords.filter((w) => w.id !== targetWord.id)
OtherWords(allWords, targetWord) ==
    LET Other(w) == w.id # targetWord.id
    IN  SelectSeq(allWords, Other)

\* The question generateQuestion returns.  id is the index of `q-<index>`;
\* distractors keeps the ids of the words selectDistractors returned, which
\* the question itself carries only as option texts.
generateQuestion(targetWord, allWords, questionType, id, random, k) ==
    LET otherWords == OtherWords(allWords, targetWord)
        distractors == selectDistractors(otherWords, 3, random, k)
        correctAnswer == IF questionType = "definition"
                         THEN targetWord.definition
                         ELSE targetWord.term
        options == <<correctAnswer>> \o
                   [d \in 1..Len(distractors) |->
                        IF questionType = "definition"
                        THEN distractors[d].definition
                        ELSE distractors[d].term]
        shuffledOptions == shuffleArray(options, random, k + Draws(Len(otherWords)))
    IN  [id |-> id,
         word |-> targetWord,
         questionType |-> questionType,
         options |-> shuffledOptions,
         correctIndex |-> IndexOf(shuffledOptions, correctAnswer),
         distractors |-> [d \in 1..Len(distractors) |-> distractors[d].id]]

\* The calls of Math.random one generateQuestion makes.
QuestionDraws(targetWord, allWords) ==
    LET others == Len(OtherWords(allWords, targetWord))
    IN  Draws(others) + Draws(1 + MathMin(3, others))

\* words.find((w) => w.id === wordId)!
FindWord(words, wordId) ==
    words[CHOOSE k \in 1..Len(words) :
            words[k].id = wordId /\ \A j \in 1..(k - 1) : words[j].id # wordId]

\* selectedWordIds.map(...) from the index-th id on.
RECURSIVE MapQuestions(_, _, _, _, _, _)
MapQuestions(selectedWordIds, words, questionType, index, random, k) ==
    IF index > Len(selectedWordIds)
    THEN <<>>
    ELSE LET word == FindWord(words, selectedWordIds[index])
         IN  <<generateQuestion(word, words, questionType, index - 1, random, k)>>
                \o MapQuestions(selectedWordIds, words, questionType, index + 1,
                                random, k + QuestionDraws(word, words))

RECURSIVE SumQuestionDraws(_, _, _)
SumQuestionDraws(selectedWordIds, words, index) ==
    IF index > Len(selectedWordIds)
    THEN 0
    ELSE QuestionDraws(FindWord(words, selectedWordIds[index]), words)
            + SumQuestionDraws(selectedWordIds, words, index + 1)

\* A selection that takes the ids as the caller listed them.
SelectedWordIds_Unranked(progress, words, questionCount, t) ==
    ArraySlice([k \in 1..Len(words) |-> words[k].id],
               MathMin(questionCount, Len(words)))

\* prioritizedIds.slice(0, Math.min(questionCount, words.length))
SelectedWordIds(progress, words, questionCount, t) ==
    LET wordIds == [k \in 1..Len(words) |-> words[k].id]
        prioritizedIds == WordsNeedingPractice(progress, wordIds, t)
    IN  ArraySlice(prioritizedIds, MathMin(questionCount, Len(words)))

\* The questions generateQuiz returns for at least 4 words.
Quiz(progress, words, questionCount, questionType, t, random) ==
    LET selectedWordIds == SelectedWordIds(progress, words, questionCount, t)
        questions == MapQuestions(selectedWordIds, words, questionType, 1, random, 1)
    IN  shuffleArray(questions, random, 1 + SumQuestionDraws(selectedWordIds, words, 1))

\* throw new Error("Need at least 4 words to generate a quiz")
NeedFourWords == [name |-> "Error", message |-> "Need at least 4 words to generate a quiz"]

\* The request of the quiz page: the words of the set its URL names, the
\* count its URL gives or 10, and the default question type.
Request(words, questionCount, questionType) ==
    [words |-> words, questionCount |-> questionCount, questionType |-> questionType]

DefaultRequest == Request(Vocabulary, 10, "definition")

Requests ==
    {Request(words, questionCount, questionType) :
        words \in WordLists, questionCount \in QuestionCounts,
        questionType \in QuestionTypes}

\* The calls of Math.random one generateQuiz makes.
QuizDraws(progress, words, questionCount, t) ==
    LET selectedWordIds == SelectedWordIds(progress, words, questionCount, t)
    IN  SumQuestionDraws(selectedWordIds, words, 1) + Draws(Len(selectedWordIds))

\* The stream after its first n values have been read.
Advance(stream, n) == [k \in 1..Len(stream) |-> MathRandom(stream, k + n)]

generateQuiz ==
    LET read == getUserProgress(stored, hasWindow)
        words == request.words
    IN  /\ call' = Call("generateQuiz", [k \in 1..Len(words) |-> words[k].id], now)
        /\ IF Len(words) < 4
           THEN /\ ret' = Outcome(NeedFourWords, TRUE, "none")
                /\ randomness' = randomness
           ELSE IF HasWordsMap(read.value) /\ ~read.raised
                THEN /\ ret' = Outcome(Quiz(read.value, words, request.questionCount,
                                            request.questionType, now, randomness),
                                       FALSE, read.logged)
                     /\ randomness' = Advance(randomness, QuizDraws(read.value, words,
                                                            request.questionCount, now))
                ELSE /\ ret' = Outcome("void", TRUE, read.logged)
                     /\ randomness' = randomness
        /\ UNCHANGED <<stored, now, hasWindow, quotaExceeded, completed, tabs, request, quiz, study>>

----------------------------------------------------------------------------
(* The session scorer and the shuffle, called on their own *)

\* Math.round of the fraction n/d, d > 0: the integer nearest to it, the
\* upper one of two equally near.
MathRound(x) == (2 * x.n + x.d) \div (2 * x.d)

\* Math.floor in place of Math.round.
calculateScore_Floor(correctCount, totalCount) ==
    IF totalCount = 0 THEN 0 ELSE (100 * correctCount) \div totalCount

\* Math.round((correctCount / totalCount) * 100), which is the rounding of
\* 100 * correctCount / totalCount for the counts of a quiz: the double
\* differs from that fraction by far less than the fraction differs from a
\* half-integer it is not equal to.
calculateScore(correctCount, totalCount) ==
    IF totalCount = 0 THEN 0 ELSE MathRound(Frac(100 * correctCount, totalCount))

\* 0 / 0
IsNaN(x) == x.d = 0

\* A rating that looks at the accuracy alone.
getPerformanceRating_IgnoresTime(accuracy, averageResponseTime) ==
    IF accuracy >= 90 THEN "excellent"
    ELSE IF accuracy >= 70 THEN "good"
    ELSE IF accuracy >= 50 THEN "fair"
    ELSE "needs-practice"

\* averageResponseTime is a fraction; a comparison with NaN is false.
getPerformanceRating(accuracy, averageResponseTime) ==
    IF accuracy >= 90 /\ ~IsNaN(averageResponseTime)
          /\ averageResponseTime.n < 3000 * averageResponseTime.d
    THEN "excellent"
    ELSE IF accuracy >= 70 THEN "good"
    ELSE IF accuracy >= 50 THEN "fair"
    ELSE "needs-practice"

\* A shuffle that swaps the elements of the array it was given.
ShuffledArgument_InPlace(array, random, k) == ShuffleFrom(array, Len(array), random, k)

\* The array given to shuffleArray, after the call: the loop swaps the
\* elements of result, the copy [...array].
ShuffledArgument(array, random, k) == array

Accuracies == 0..100
AverageTimes == {Frac(0, 1), Frac(2000, 1), Frac(5999, 2), Frac(3000, 1), Frac(9000, 1)}
ShuffleInputs == {[k \in 1..n |-> Vocabulary[k].id] : n \in 0..Len(Vocabulary)}

\* A call of a function that reads no state: its arguments, its value.
PureCall(op, args, value) ==
    /\ call' = Call(op, args, 0)
    /\ ret' = Outcome(value, FALSE, "none")
    /\ UNCHANGED <<stored, now, hasWindow, quotaExceeded, completed, tabs, request,
                   randomness, quiz, study>>

CallCalculateScore(correctCount, totalCount) ==
    PureCall("calculateScore", <<correctCount, totalCount>>,
             calculateScore(correctCount, totalCount))

CallGetPerformanceRating(accuracy, averageResponseTime) ==
    PureCall("getPerformanceRating", <<accuracy, averageResponseTime>>,
             getPerformanceRating(accuracy, averageResponseTime))

CallShuffleArray(array, random) ==
    PureCall("shuffleArray", array,
             [array |-> ShuffledArgument(array, random, 1),
              result |-> shuffleArray(array, random, 1)])

----------------------------------------------------------------------------
(* The study page *)

\* useState: the state of the page before its effect has run.  mounted
\* tells that the effect has run.
InitialStudy ==
    [currentIndex |-> 0,
     isAnimating |-> FALSE,
     isFinished |-> FALSE,
     isFlipped |-> FALSE,
     mounted |-> FALSE,
     results |-> <<>>,
     slideDirection |-> "null",
     wordStatuses |-> <<>>,
     words |-> <<>>]

\* What the study page renders.
StudyScreen(state) ==
    IF Len(state.words) = 0 THEN "loading"
    ELSE IF state.isFinished THEN "summary"
    ELSE "card"

\* words[currentIndex] is undefined past the end.
HasCurrentWord(state) == state.currentIndex + 1 \in 1..Len(state.words)
CurrentWord(state) == state.words[state.currentIndex + 1]

\* wordStatuses[id] || "new": the status badge of a word.
Badge(state, id) ==
    IF id \in DOMAIN state.wordStatuses THEN state.wordStatuses[id] ELSE "new"

\* The effect that loads the set: the status of every word from the store,
\* then startStudySession.  A TypeError of getWordProgress ends the effect.
LoadStudy ==
    LET read == getUserProgress(stored, hasWindow)
        words == request.words
        saved == saveUserProgress(stored, SessionUpdate(read.value, now),
                                  hasWindow, quotaExceeded)
    IN  /\ ~study.mounted
        /\ IF HasWordsMap(read.value) /\ ~read.raised
           THEN /\ study' = [study EXCEPT
                       !.mounted = TRUE,
                       !.words = words,
                       !.wordStatuses =
                           [id \in {words[k].id : k \in 1..Len(words)} |->
                               RecordOrDefault(read.value, id).status]]
                /\ call' = Call("startStudySession", <<>>, now)
                /\ stored' = saved.item
                /\ ret' = Outcome("void", FALSE,
                                  IF saved.logged # "none" THEN saved.logged ELSE read.logged)
           ELSE /\ study' = [study EXCEPT !.mounted = TRUE]
                /\ call' = Call("getWordProgress", <<>>, 0)
                /\ stored' = stored
                /\ ret' = Outcome("void", TRUE, read.logged)
        /\ UNCHANGED <<now, hasWindow, quotaExceeded, completed, tabs, request, randomness,
                       quiz>>

\* A click on the card.
handleFlip ==
    /\ StudyScreen(study) = "card"
    /\ study' = IF ~study.isAnimating
                THEN [study EXCEPT !.isFlipped = ~@]
                ELSE study
    /\ call' = Call("handleFlip", <<>>, 0)
    /\ ret' = Void
    /\ UNCHANGED <<stored, now, hasWindow, quotaExceeded, completed, tabs, request,
                   randomness, quiz>>

\* remembered ? "mastered" : "learning"
LocalStatus(remembered) == IF remembered THEN "mastered" ELSE "learning"

\* A click on Forgot or Remembered.  An exception of
\* updateWordFromFlashcard ends the handler before its setState calls.
handleAnswer(remembered) ==
    LET currentWord == CurrentWord(study)
    IN  /\ StudyScreen(study) = "card"
        /\ IF study.isAnimating \/ ~HasCurrentWord(study)
           THEN /\ call' = Call("handleAnswer", <<>>, 0)
                /\ ret' = Void
                /\ UNCHANGED <<stored, completed, study>>
           ELSE /\ ReadModifyWrite("updateWordFromFlashcard",
                                   FlashcardUpdate(Current, currentWord.id, remembered, now))
                /\ completed' = IF ret'.raised THEN completed ELSE completed + 1
                /\ study' = IF ret'.raised
                            THEN study
                            ELSE [study EXCEPT
                                     !.wordStatuses =
                                         [id \in DOMAIN @ \cup {currentWord.id} |->
                                             IF id = currentWord.id
                                             THEN LocalStatus(remembered)
                                             ELSE @[id]],
                                     !.results = Append(@, [remembered |-> remembered,
                                                            term |-> currentWord.term,
                                                            wordId |-> currentWord.id]),
                                     !.isAnimating = TRUE,
                                     !.slideDirection =
                                         IF remembered THEN "right" ELSE "left"]
        /\ UNCHANGED <<now, hasWindow, quotaExceeded, tabs, request, randomness, quiz>>

\* The callback of the timer handleAnswer set: the next card, or the summary.
AnimationEnd ==
    /\ study.isAnimating
    /\ study' = [study EXCEPT
                    !.isFlipped = FALSE,
                    !.slideDirection = "null",
                    !.currentIndex = IF @ < Len(study.words) - 1 THEN @ + 1 ELSE @,
                    !.isFinished = IF study.currentIndex < Len(study.words) - 1
                                   THEN @ ELSE TRUE,
                    !.isAnimating = FALSE]
    /\ call' = Call("setTimeout", <<>>, 0)
    /\ ret' = Void
    /\ UNCHANGED <<stored, now, hasWindow, quotaExceeded, completed, tabs, request,
                   randomness, quiz>>

\* The Study Again button of the summary.
StudyAgain ==
    /\ StudyScreen(study) = "summary"
    /\ study' = [study EXCEPT !.currentIndex = 0, !.isFinished = FALSE,
                              !.results = <<>>, !.isFlipped = FALSE]
    /\ call' = Call("StudyAgain", <<>>, 0)
    /\ ret' = Void
    /\ UNCHANGED <<stored, now, hasWindow, quotaExceeded, completed, tabs, request,
                   randomness, quiz>>

----------------------------------------------------------------------------
(* The quiz page *)

\* selectedAnswer: number | null
NoAnswer == [index |-> 0, null |-> TRUE]
Answer(index) == [index |-> index, null |-> FALSE]

\* useState: the state of the page before its effect has run.
InitialState ==
    [currentIndex |-> 0,
     isFinished |-> FALSE,
     isLoading |-> TRUE,
     questionStartTime |-> 0,
     questions |-> <<>>,
     results |-> <<>>,
     selectedAnswer |-> NoAnswer,
     showResult |-> FALSE]

\* What the page renders.
Screen(state) ==
    IF state.isLoading THEN "loading"
    ELSE IF Len(state.questions) = 0 THEN "notEnoughWords"
    ELSE IF state.isFinished THEN "results"
    ELSE "question"

\* state.questions[state.currentIndex] is undefined past the end.
HasCurrentQuestion(state) == state.currentIndex + 1 \in 1..Len(state.questions)
CurrentQuestion(state) == state.questions[state.currentIndex + 1]

RECURSIVE SumResults(_)
SumResults(results) ==
    IF results = <<>> THEN 0 ELSE Head(results).responseTime + SumResults(Tail(results))

\* What the results screen computes.  avgResponseTime is the fraction
\* sum / totalCount, NaN for 0 / 0.
ResultsScreen(state) ==
    LET correctCount == Cardinality({k \in 1..Len(state.results) : state.results[k].correct})
        totalCount == Len(state.results)
        accuracy == calculateScore(correctCount, totalCount)
        avgResponseTime == Frac(SumResults(state.results), totalCount)
    IN  [accuracy |-> accuracy,
         avgResponseTime |-> avgResponseTime,
         correctCount |-> correctCount,
         rating |-> getPerformanceRating(accuracy, avgResponseTime),
         totalCount |-> totalCount]

\* The effect that initializes the quiz.  With fewer than 4 words it only
\* ends the loading; an exception of generateQuiz leaves the page loading.
LoadQuiz ==
    LET read == getUserProgress(stored, hasWindow)
        words == request.words
        saved == saveUserProgress(stored, SessionUpdate(read.value, now),
                                  hasWindow, quotaExceeded)
    IN  /\ quiz.isLoading
        /\ IF Len(words) >= 4
           THEN IF HasWordsMap(read.value) /\ ~read.raised
                THEN /\ quiz' = [quiz EXCEPT
                           !.questions = Quiz(read.value, words, request.questionCount,
                                              request.questionType, now, randomness),
                           !.questionStartTime = now,
                           !.isLoading = FALSE]
                     /\ randomness' = Advance(randomness, QuizDraws(read.value, words,
                                                            request.questionCount, now))
                     /\ call' = Call("startStudySession", <<>>, now)
                     /\ stored' = saved.item
                     /\ ret' = Outcome("void", FALSE,
                                       IF saved.logged # "none" THEN saved.logged
                                       ELSE read.logged)
                ELSE /\ call' = Call("generateQuiz", [k \in 1..Len(words) |-> words[k].id], now)
                     /\ ret' = Outcome("void", TRUE, read.logged)
                     /\ UNCHANGED <<stored, randomness, quiz>>
           ELSE /\ quiz' = [quiz EXCEPT !.isLoading = FALSE]
                /\ call' = Call("getVocabularySet", <<>>, 0)
                /\ ret' = Void
                /\ UNCHANGED <<stored, randomness>>
        /\ UNCHANGED <<now, hasWindow, quotaExceeded, completed, tabs, request, study>>

\* A handler that records and shows the result whatever the page shows.
handleSelectAnswer_Unguarded(index, responseTime) ==
    LET currentQuestion == CurrentQuestion(quiz)
        correct == index = currentQuestion.correctIndex
    IN  /\ Screen(quiz) = "question"
        /\ ReadModifyWrite("updateWordFromQuiz",
                           QuizUpdate(Current, currentQuestion.word.id, correct,
                                      responseTime, now))
        /\ completed' = completed + 1
        /\ quiz' = [quiz EXCEPT
                       !.selectedAnswer = Answer(index),
                       !.showResult = TRUE,
                       !.results = Append(@, [correct |-> correct,
                                              questionId |-> currentQuestion.id,
                                              responseTime |-> responseTime,
                                              wordId |-> currentQuestion.word.id])]
        /\ UNCHANGED <<now, hasWindow, quotaExceeded, tabs, request, randomness, study>>

\* A click on an option of the question shown, responseTime after the
\* question appeared.  An exception of updateWordFromQuiz ends the handler
\* before its setState.
handleSelectAnswer(index, responseTime) ==
    LET currentQuestion == CurrentQuestion(quiz)
        correct == index = currentQuestion.correctIndex
    IN  /\ Screen(quiz) = "question"
        /\ IF quiz.showResult \/ ~HasCurrentQuestion(quiz)
           THEN /\ call' = Call("handleSelectAnswer", <<>>, now)
                /\ ret' = Void
                /\ UNCHANGED <<stored, completed, quiz>>
           ELSE /\ ReadModifyWrite("updateWordFromQuiz",
                                   QuizUpdate(Current, currentQuestion.word.id, correct,
                                              responseTime, now))
                /\ completed' = IF ret'.raised THEN completed ELSE completed + 1
                /\ quiz' = IF ret'.raised
                           THEN quiz
                           ELSE [quiz EXCEPT
                                    !.selectedAnswer = Answer(index),
                                    !.showResult = TRUE,
                                    !.results = Append(@, [correct |-> correct,
                                                           questionId |-> currentQuestion.id,
                                                           responseTime |-> responseTime,
                                                           wordId |-> currentQuestion.word.id])]
        /\ UNCHANGED <<now, hasWindow, quotaExceeded, tabs, request, randomness, study>>

\* The Next button is rendered with the result of the answer.
NextButtonShown_Always(state) == Screen(state) = "question"
NextButtonShown(state) == Screen(state) = "question" /\ state.showResult

\* A handler that finishes one question early.
IsLastQuestion_Early(state) == ~(state.currentIndex < Len(state.questions) - 2)
IsLastQuestion(state) == ~(state.currentIndex < Len(state.questions) - 1)

handleNext ==
    /\ NextButtonShown(quiz)
    /\ quiz' = IF ~IsLastQuestion(quiz)
               THEN [quiz EXCEPT !.currentIndex = @ + 1,
                                 !.selectedAnswer = NoAnswer,
                                 !.showResult = FALSE,
                                 !.questionStartTime = now]
               ELSE [quiz EXCEPT !.isFinished = TRUE]
    /\ call' = Call("handleNext", <<>>, now)
    /\ ret' = Void
    /\ UNCHANGED <<stored, now, hasWindow, quotaExceeded, completed, tabs, request,
                   randomness, study>>

\* The state Try Again sets, with the questions of a new quiz.
FreshState(state, questions) ==
    [currentIndex |-> 0,
     isFinished |-> FALSE,
     isLoading |-> state.isLoading,
     questionStartTime |-> now,
     questions |-> questions,
     results |-> <<>>,
     selectedAnswer |-> NoAnswer,
     showResult |-> FALSE]

\* The Try Again button of the results screen.
TryAgain ==
    LET read == getUserProgress(stored, hasWindow)
        words == request.words
    IN  /\ Screen(quiz) = "results"
        /\ call' = Call("generateQuiz", [k \in 1..Len(words) |-> words[k].id], now)
        /\ IF Len(words) < 4
           THEN /\ ret' = Outcome(NeedFourWords, TRUE, "none")
                /\ UNCHANGED <<randomness, quiz>>
           ELSE IF HasWordsMap(read.value) /\ ~read.raised
                THEN /\ ret' = Outcome("void", FALSE, read.logged)
                     /\ quiz' = FreshState(quiz, Quiz(read.value, words, request.questionCount,
                                                      request.questionType, now, randomness))
                     /\ randomness' = Advance(randomness, QuizDraws(read.value, words,
                                                            request.questionCount, now))
                ELSE /\ ret' = Outcome("void", TRUE, read.logged)
                     /\ UNCHANGED <<randomness, quiz>>
        /\ UNCHANGED <<stored, now, hasWindow, quotaExceeded, completed, tabs, request, study>>

----------------------------------------------------------------------------
(* Two browsing contexts over the same localStorage item.  A recording is  *)
(* two steps of its context: the getUserProgress at its entry and, after   *)
(* steps of the other context, the rest of it down to saveUserProgress.    *)

IdleTab == [pc |-> "idle", op |-> "none", wordId |-> "", correct |-> FALSE,
            responseTime |-> 0, progress |-> createDefaultUserProgress]

Loaded == {t \in Tabs : tabs[t].pc = "loaded"}

\* A recording that reads the document again when it writes, as under a lock.
TabProgress_Reread(t) == getUserProgress(stored, hasWindow).value

\* The document a recording changes: the one it read at its entry.
TabProgress(t) == tabs[t].progress

TabBegin(t, op, wordId, correct, responseTime) ==
    /\ tabs[t].pc = "idle"
    /\ completed + Cardinality(Loaded) < MaxTabAnswers
    /\ tabs' = [tabs EXCEPT ![t] =
                    [pc |-> "loaded", op |-> op, wordId |-> wordId, correct |-> correct,
                     responseTime |-> responseTime,
                     progress |-> getUserProgress(stored, hasWindow).value]]
    /\ UNCHANGED <<stored, now, hasWindow, quotaExceeded, call, ret, completed, request, randomness, quiz, study>>

TabFinish(t) ==
    LET my == tabs[t]
        update == IF my.op = "updateWordFromFlashcard"
                  THEN FlashcardUpdate(TabProgress(t), my.wordId, my.correct, now)
                  ELSE QuizUpdate(TabProgress(t), my.wordId, my.correct,
                                  my.responseTime, now)
        saved == saveUserProgress(stored, update, hasWindow, quotaExceeded)
    IN  /\ my.pc = "loaded"
        /\ stored' = saved.item
        /\ call' = Call(my.op, <<>>, now)
        /\ ret' = Outcome("void", FALSE, saved.logged)
        /\ completed' = completed + 1
        /\ tabs' = [tabs EXCEPT ![t] = IdleTab]
        /\ UNCHANGED <<now, hasWindow, quotaExceeded, request, randomness, quiz, study>>

----------------------------------------------------------------------------
\* Other use of the origin's storage fills the quota, or frees it.
QuotaChange ==
    /\ quotaExceeded' = ~quotaExceeded
    /\ UNCHANGED <<stored, now, hasWindow, call, ret, completed, tabs, request, randomness, quiz, study>>

\* Time passes between two user actions.
Tick ==
    /\ now' = now + TickHours
    /\ UNCHANGED <<stored, hasWindow, quotaExceeded, call, ret, completed, tabs, request, randomness, quiz, study>>

----------------------------------------------------------------------------

Init ==
    /\ stored = NoItem
    /\ now = 0
    /\ hasWindow = TRUE
    /\ quotaExceeded = FALSE
    /\ call = NoCall
    /\ ret = Void
    /\ completed = 0
    /\ tabs = [t \in Tabs |-> IdleTab]
    /\ request = DefaultRequest
    /\ randomness = [k \in 1..MaxDraws |-> 0]
    /\ quiz = InitialState
    /\ study = InitialStudy

\* The bounds of the model: answers recorded since the last clear, sessions
\* started, the clock.
MayRecord(max) == completed < max
MayStartSession == Current.totalStudySessions < MaxSessions
MayTick == now < MaxTicks * TickHours

\* The store used by one context.  The calls follow each other within one
\* clock value: what the store writes from the clock (lastStudied, the date
\* of an attempt, lastStudySession) is read by getWordsNeedingPractice alone,
\* and SpecRank lets the clock advance.
Next ==
    \/ \E w \in WordIds, b \in BOOLEAN :
          MayRecord(MaxAnswers) /\ updateWordFromFlashcard(w, b)
    \/ \E w \in WordIds, b \in BOOLEAN, rt \in ResponseTimes :
          MayRecord(MaxAnswers) /\ updateWordFromQuiz(w, b, rt)
    \/ MayStartSession /\ startStudySession
    \/ clearAllProgress

Spec == Init /\ [][Next]_vars

\* The store with its reads over lists of word ids.  The reads look at the
\* counters, the status and lastStudied of a record only, which a quiz answer
\* sets as a flashcard answer does; the documents here are built by flashcard
\* answers.
NextStats ==
    \/ \E w \in WordIds, b \in BOOLEAN :
          MayRecord(MaxReadAnswers) /\ updateWordFromFlashcard(w, b)
    \/ clearAllProgress
    \/ \E ids \in IdLists : getSetStatistics(ids)

SpecStats == Init /\ [][NextStats]_vars

NextRank ==
    \/ \E w \in WordIds, b \in BOOLEAN :
          MayRecord(MaxReadAnswers) /\ updateWordFromFlashcard(w, b)
    \/ clearAllProgress
    \/ MayTick /\ Tick
    \/ \E ids \in IdLists : getWordsNeedingPractice(ids)

SpecRank == Init /\ [][NextRank]_vars

\* The quiz generator over the store, for every request and every stream of
\* Math.random.  A quiz is generated from documents that flashcard answers
\* built, at one clock value.
InitQuiz ==
    /\ stored = NoItem
    /\ now = 0
    /\ hasWindow = TRUE
    /\ quotaExceeded = FALSE
    /\ call = NoCall
    /\ ret = Void
    /\ completed = 0
    /\ tabs = [t \in Tabs |-> IdleTab]
    /\ request \in Requests
    /\ randomness \in RandomStreams
    /\ quiz = InitialState
    /\ study = InitialStudy

NextQuiz ==
    \/ \E w \in WordIds, b \in BOOLEAN :
          MayRecord(MaxQuizAnswers) /\ updateWordFromFlashcard(w, b)
    \/ clearAllProgress
    \/ generateQuiz

SpecQuiz == InitQuiz /\ [][NextQuiz]_vars

\* The store with sessions started again and again, and a caller that saves
\* what it loaded.
MayStartSessionCall == Current.totalStudySessions < MaxSessionCalls

NextSave ==
    \/ \E w \in WordIds, b \in BOOLEAN :
          MayRecord(MaxSaveAnswers) /\ updateWordFromFlashcard(w, b)
    \/ \E w \in WordIds, b \in BOOLEAN, rt \in ResponseTimes :
          MayRecord(MaxSaveAnswers) /\ updateWordFromQuiz(w, b, rt)
    \/ MayStartSessionCall /\ startStudySession
    \/ clearAllProgress
    \/ CallSaveUserProgress

SpecSave == Init /\ [][NextSave]_vars

\* The scorer and the shuffle on every input of a range, and the quiz
\* generator on the request of the page.
NextPure ==
    \/ \E totalCount \in 0..MaxTotal, correctCount \in 0..MaxTotal :
          correctCount <= totalCount /\ CallCalculateScore(correctCount, totalCount)
    \/ \E accuracy \in Accuracies, averageResponseTime \in AverageTimes :
          CallGetPerformanceRating(accuracy, averageResponseTime)
    \/ \E array \in ShuffleInputs, random \in RandomStreams :
          CallShuffleArray(array, random)
    \/ generateQuiz

SpecPure == Init /\ [][NextPure]_vars

\* One visit of the quiz page: the set and the count its URL names, the
\* quiz generated at load and at every Try Again, the answers of the user.
SessionWordLists == {SubSeq(Vocabulary, 1, n) : n \in 3..Len(Vocabulary)}
SessionRequests ==
    {Request(words, questionCount, "definition") :
        words \in SessionWordLists, questionCount \in QuestionCounts}
SessionStreams == {[k \in 1..MaxDraws |-> 0], [k \in 1..MaxDraws |-> k % RandomGrain]}

InitSession ==
    /\ stored = NoItem
    /\ now = 0
    /\ hasWindow = TRUE
    /\ quotaExceeded = FALSE
    /\ call = NoCall
    /\ ret = Void
    /\ completed = 0
    /\ tabs = [t \in Tabs |-> IdleTab]
    /\ request \in SessionRequests
    /\ randomness \in SessionStreams
    /\ quiz = InitialState
    /\ study = InitialStudy

MayTryAgain == completed < MaxSessionAnswers

\* The option buttons of a question.
OptionIndexes == 0..3

NextSession ==
    \/ LoadQuiz
    \/ \E index \in OptionIndexes, responseTime \in ResponseTimes :
          handleSelectAnswer(index, responseTime)
    \/ handleNext
    \/ MayTryAgain /\ TryAgain

SpecSession == InitSession /\ [][NextSession]_vars

\* A user who goes on: a question shown is answered and the Next button
\* shown is pressed.
SpecSessionLive ==
    /\ SpecSession
    /\ WF_vars(\E index \in OptionIndexes, responseTime \in ResponseTimes :
                  handleSelectAnswer(index, responseTime))
    /\ WF_vars(handleNext)

\* A visit of the quiz page after flashcards were studied.
MayStudyBefore == quiz.isLoading /\ completed < MaxPriorAnswers

NextStudied ==
    \/ \E w \in WordIds, b \in BOOLEAN : MayStudyBefore /\ updateWordFromFlashcard(w, b)
    \/ LoadQuiz
    \/ \E index \in OptionIndexes, responseTime \in ResponseTimes :
          handleSelectAnswer(index, responseTime)
    \/ handleNext
    \/ MayTryAgain /\ TryAgain

SpecStudied == InitSession /\ [][NextStudied]_vars

\* One visit of the study page, for a set of one or two words.
StudyWordLists == {SubSeq(Vocabulary, 1, n) : n \in 1..2}

InitStudy ==
    /\ stored = NoItem
    /\ now = 0
    /\ hasWindow = TRUE
    /\ quotaExceeded = FALSE
    /\ call = NoCall
    /\ ret = Void
    /\ completed = 0
    /\ tabs = [t \in Tabs |-> IdleTab]
    /\ request \in {Request(words, 10, "definition") : words \in StudyWordLists}
    /\ randomness = [k \in 1..MaxDraws |-> 0]
    /\ quiz = InitialState
    /\ study = InitialStudy

MayStudyAgain == completed < MaxStudyAnswers

NextStudy ==
    \/ LoadStudy
    \/ handleFlip
    \/ \E remembered \in BOOLEAN : handleAnswer(remembered)
    \/ AnimationEnd
    \/ MayStudyAgain /\ StudyAgain

SpecStudy == InitStudy /\ [][NextStudy]_vars

\* The quiz generator for every count the URL of the quiz page can give:
\* parseInt returns negative integers and 0 as well.
AnyCounts == (0 - MaxCount)..MaxCount

InitCounts ==
    /\ stored = NoItem
    /\ now = 0
    /\ hasWindow = TRUE
    /\ quotaExceeded = FALSE
    /\ call = NoCall
    /\ ret = Void
    /\ completed = 0
    /\ tabs = [t \in Tabs |-> IdleTab]
    /\ request \in {Request(words, questionCount, questionType) :
                       words \in {ws \in WordLists : Len(ws) >= 4},
                       questionCount \in AnyCounts,
                       questionType \in QuestionTypes}
    /\ randomness \in RandomStreams
    /\ quiz = InitialState
    /\ study = InitialStudy

NextCounts ==
    \/ \E w \in WordIds, b \in BOOLEAN :
          MayRecord(MaxCountAnswers) /\ updateWordFromFlashcard(w, b)
    \/ generateQuiz

SpecCounts == InitCounts /\ [][NextCounts]_vars

\* The store over whatever the browser holds under the key when the page
\* loads, with or without a window, and with writes the browser may refuse.
InitEnv ==
    /\ stored \in {NoItem} \cup {RawText(s) : s \in RawTexts}
    /\ now = 0
    /\ hasWindow \in BOOLEAN
    /\ quotaExceeded = FALSE
    /\ call = NoCall
    /\ ret = Void
    /\ completed = 0
    /\ tabs = [t \in Tabs |-> IdleTab]
    /\ request = DefaultRequest
    /\ randomness = [k \in 1..MaxDraws |-> 0]
    /\ quiz = InitialState
    /\ study = InitialStudy

NextEnv ==
    \/ \E w \in WordIds, b \in BOOLEAN :
          MayRecord(MaxEnvAnswers) /\ updateWordFromFlashcard(w, b)
    \/ \E w \in WordIds, b \in BOOLEAN, rt \in ResponseTimes :
          MayRecord(MaxEnvAnswers) /\ updateWordFromQuiz(w, b, rt)
    \/ MayStartSession /\ startStudySession
    \/ clearAllProgress
    \/ CallGetUserProgress
    \/ QuotaChange

SpecEnv == InitEnv /\ [][NextEnv]_vars

\* Every read of the store and the quiz generator, over whatever the browser
\* holds under the key when the page loads.
NextReads ==
    \/ \E w \in WordIds, b \in BOOLEAN :
          MayRecord(MaxReadAnswers) /\ updateWordFromFlashcard(w, b)
    \/ MayStartSession /\ startStudySession
    \/ clearAllProgress
    \/ CallGetUserProgress
    \/ \E id \in CatalogIds : getWordProgress(id)
    \/ \E ids \in IdLists : getSetStatistics(ids)
    \/ \E ids \in IdLists : getWordsNeedingPractice(ids)
    \/ generateQuiz

SpecReads == InitEnv /\ [][NextReads]_vars

\* Two contexts recording answers over one stored document.
NextTabs ==
    \/ \E t \in Tabs, w \in WordIds, b \in BOOLEAN :
          TabBegin(t, "updateWordFromFlashcard", w, b, 0)
    \/ \E t \in Tabs, w \in WordIds, b \in BOOLEAN, rt \in ResponseTimes :
          TabBegin(t, "updateWordFromQuiz", w, b, rt)
    \/ \E t \in Tabs : TabFinish(t)

SpecTabs == Init /\ [][NextTabs]_vars

----------------------------------------------------------------------------
(* What a caller reads after the operations so far *)

\* getWordProgress(wordId) on the stored document.
WordNow(w) == RecordOrDefault(Current, w)
TotalNow(w) == WordNow(w).correctCount + WordNow(w).incorrectCount

StatusRank(status) ==
    CASE status = "new" -> 0
      [] status = "learning" -> 1
      [] status = "mastered" -> 2

\* The mastery threshold as the specification words it: at least three
\* attempts and a correct rate of at least 0.8 (8 in 10).
MeetsMasteryRule(correct, total) == total >= 3 /\ 10 * correct >= 8 * total

----------------------------------------------------------------------------
(* C1: in every state reached by recording answers, starting sessions and  *)
(* clearing, every word's status follows the mastery rule on its current   *)
(* counters: mastered iff total >= 3 and rate >= 0.8, learning iff         *)
(* total >= 1 and the threshold is not met, new iff total = 0.             *)
C1_StatusFollowsRule ==
    \A w \in WordIds :
        LET wp == WordNow(w)
            total == TotalNow(w)
        IN  /\ (wp.status = "mastered") <=> MeetsMasteryRule(wp.correctCount, total)
            /\ (wp.status = "learning") <=>
                    (total >= 1 /\ ~MeetsMasteryRule(wp.correctCount, total))
            /\ (wp.status = "new") <=> (total = 0)

\* One word mastered by three correct answers while another, answered once
\* and wrongly, is learning.
C1_Witness ==
    \E w, v \in WordIds :
        /\ WordNow(w).correctCount = 3 /\ WordNow(w).incorrectCount = 0
        /\ WordNow(w).status = "mastered"
        /\ WordNow(v).correctCount = 0 /\ WordNow(v).incorrectCount = 1
        /\ WordNow(v).status = "learning"

(* C2: the status is no ratchet: a step that leaves a mastered word with a *)
(* correct rate below 0.8 leaves it learning.                              *)
C2_MasteredFallsBack ==
    [][\A w \in WordIds :
          (/\ WordNow(w).status = "mastered"
           /\ HasRecord(Current, w)'
           /\ 10 * WordNow(w).correctCount' < 8 * TotalNow(w)')
          => WordNow(w).status' = "learning"]_vars

\* A word answered in quizzes only, three times correctly and then wrongly:
\* mastered after the third answer, learning now.
C2_Witness ==
    \E w \in WordIds :
        LET wp == WordNow(w)
        IN  /\ Len(wp.quizAttempts) = 4
            /\ wp.correctCount = 3 /\ wp.incorrectCount = 1
            /\ \A k \in 1..3 : wp.quizAttempts[k].correct
            /\ ~wp.quizAttempts[4].correct
            /\ wp.status = "learning"

(* C3 as stated: without a clear, no step lowers a word's status in the    *)
(* order new < learning < mastered.                                        *)
C3_StatusOnlyUpward ==
    [][clearAllProgress
       \/ \A w \in WordIds :
             StatusRank(WordNow(w).status') >= StatusRank(WordNow(w).status)]_vars

(* C3 amended: without a clear, no step takes a word back to new, and a    *)
(* step takes a word from mastered to learning only by recording an        *)
(* incorrect answer that leaves its correct rate below 0.8.                *)
C3_NeverBackToNew ==
    [][clearAllProgress
       \/ \A w \in WordIds :
             /\ WordNow(w).status # "new" => WordNow(w).status' # "new"
             /\ (WordNow(w).status = "mastered" /\ WordNow(w).status' = "learning")
                   => /\ WordNow(w).incorrectCount' = WordNow(w).incorrectCount + 1
                      /\ 10 * WordNow(w).correctCount' < 8 * TotalNow(w)']_vars

\* A word that stayed mastered through a fourth answer.
C3_Witness ==
    \E w \in WordIds :
        /\ WordNow(w).status = "mastered"
        /\ WordNow(w).correctCount = 4 /\ WordNow(w).incorrectCount = 0

(* C4: the counters are never negative, every recording raises exactly one *)
(* counter of its word by exactly 1 (correctCount when remembered/correct, *)
(* incorrectCount otherwise), and the counters of all words sum to the     *)
(* number of recordings since the last clear.                              *)
RaisesOneCounter(w, correct) ==
    /\ WordNow(w).correctCount' = WordNow(w).correctCount + (IF correct THEN 1 ELSE 0)
    /\ WordNow(w).incorrectCount' = WordNow(w).incorrectCount + (IF correct THEN 0 ELSE 1)

C4_NoRecordingLost ==
    /\ [](/\ \A w \in WordIds : WordNow(w).correctCount >= 0 /\ WordNow(w).incorrectCount >= 0
          /\ CounterSum(Current) = completed)
    /\ [][/\ \A w \in WordIds, b \in BOOLEAN :
               updateWordFromFlashcard(w, b) => RaisesOneCounter(w, b)
          /\ \A w \in WordIds, b \in BOOLEAN, rt \in ResponseTimes :
               updateWordFromQuiz(w, b, rt) => RaisesOneCounter(w, b)]_vars

\* Four recordings, correct and incorrect, over two words.
C4_Witness ==
    /\ completed = 4
    /\ \E w, v \in WordIds :
          /\ w # v
          /\ WordNow(w).correctCount = 1 /\ WordNow(w).incorrectCount = 1
          /\ WordNow(v).correctCount = 1 /\ WordNow(v).incorrectCount = 1

----------------------------------------------------------------------------
(* C5: with two contexts the recordings are not safe: a recording that     *)
(* writes from a copy read before another context's write overwrites that  *)
(* write, and the stored counters then sum to fewer than the recordings    *)
(* completed.  The counters never sum to more than the recordings.         *)
StaleCopy(t) == tabs[t].pc = "loaded" /\ tabs[t].progress # Current

C5_StaleWriteLosesRecording ==
    /\ [](CounterSum(Current) <= completed)
    /\ [][\A t \in Tabs :
            (StaleCopy(t) /\ TabFinish(t)) =>
                /\ CounterSum(Current') = CounterSum(tabs[t].progress) + 1
                /\ CounterSum(Current') < completed']_vars

\* Both contexts have returned from a recording each, and the stored
\* document holds one record with one answer.
C5_Witness ==
    /\ \A t \in Tabs : tabs[t].pc = "idle"
    /\ completed = 2
    /\ CounterSum(Current) = 1
    /\ Cardinality(DOMAIN Current.words) = 1

(* C6: getUserProgress never raises, and it returns the default document   *)
(* (no words, null lastStudySession, totalStudySessions 0) whenever no     *)
(* value is persisted or the persisted text is not JSON.                   *)
NothingPersisted == stored.kind = "null"
NotParseable == stored.kind = "raw" /\ stored.text \in {"", "{bad"}

C6_ReadFallsBackToDefault ==
    call.op = "getUserProgress" =>
        /\ ~ret.raised
        /\ (NothingPersisted \/ NotParseable) =>
              /\ ret.value.shape = "doc"
              /\ DOMAIN ret.value.words = {}
              /\ ret.value.lastStudySession.null
              /\ ret.value.totalStudySessions = 0

\* getUserProgress has met text that JSON.parse rejects, logged it and
\* returned.
C6_Witness ==
    /\ call.op = "getUserProgress"
    /\ stored = RawText("{bad")
    /\ hasWindow
    /\ ret.logged = "read"
    /\ ~ret.raised

(* C7: a failure of the persistence write during recordFlashcardAnswer,    *)
(* recordQuizAnswer or startSession is reported to the caller.             *)
C7_WriteFailureReported ==
    (/\ call.op \in {"updateWordFromFlashcard", "updateWordFromQuiz", "startStudySession"}
     /\ ret.logged = "save")
    => ret.raised

----------------------------------------------------------------------------
(* The review priority as the specification defines it, in units of        *)
(* 1/(HoursPerDay * total) so that it is an integer: 50 for an id with no  *)
(* record or no attempts, else (1 - correct/total)*100 + days since        *)
(* lastStudied, 30 days when lastStudied is null.  PriorityScale is the    *)
(* unit's denominator.                                                      *)
PriorityScale(id) ==
    IF TotalNow(id) = 0 THEN 1 ELSE HoursPerDay * TotalNow(id)

ClaimedPriority(id, at) ==
    IF TotalNow(id) = 0
    THEN 50
    ELSE 100 * (TotalNow(id) - WordNow(id).correctCount) * HoursPerDay
            + TotalNow(id) * (IF WordNow(id).lastStudied.null
                              THEN 30 * HoursPerDay
                              ELSE at - WordNow(id).lastStudied.ms)

SamePriority(a, b, at) ==
    ClaimedPriority(a, at) * PriorityScale(b) = ClaimedPriority(b, at) * PriorityScale(a)

HigherOrSamePriority(a, b, at) ==
    ClaimedPriority(a, at) * PriorityScale(b) >= ClaimedPriority(b, at) * PriorityScale(a)

Occurrences(seq, x) == Cardinality({k \in 1..Len(seq) : seq[k] = x})

(* C8: getSetStatistics returns mastered + learning + new = total = the    *)
(* length of the id list, for every list (repeated ids, ids without a      *)
(* record) and every document; an id without a record counts as new.       *)
C8_TalliesAddUp ==
    (call.op = "getSetStatistics" /\ ~ret.raised) =>
        /\ ret.value.mastered + ret.value.learning + ret.value.new = ret.value.total
        /\ ret.value.total = Len(call.ids)
        /\ ret.value.new >=
              Cardinality({k \in 1..Len(call.ids) : ~HasRecord(Current, call.ids[k])})
        /\ ret.value.mastered =
              Cardinality({k \in 1..Len(call.ids) : WordNow(call.ids[k]).status = "mastered"})

\* A list of a mastered word and a word without a record.
C8_Witness ==
    /\ call.op = "getSetStatistics"
    /\ Len(call.ids) = 2
    /\ ret.value.mastered = 1 /\ ret.value.learning = 0 /\ ret.value.new = 1
    /\ \E k \in 1..2 : ~HasRecord(Current, call.ids[k])

(* C9: rank returns a permutation of its input (every id as often as in    *)
(* the input), and ids of equal priority keep their relative order.        *)
C9_StablePermutation ==
    (call.op = "getWordsNeedingPractice" /\ ~ret.raised) =>
        /\ Len(ret.value) = Len(call.ids)
        /\ \A id \in CatalogIds : Occurrences(ret.value, id) = Occurrences(call.ids, id)
        /\ \A id \in CatalogIds :
              LET Ties(x) == SamePriority(x, id, call.at)
              IN  SelectSeq(ret.value, Ties) = SelectSeq(call.ids, Ties)

\* Two different ids of equal priority, an answered word whose priority
\* comes to 50 ahead of a word without a record: they come out in their
\* input order.
C9_Witness ==
    /\ call.op = "getWordsNeedingPractice"
    /\ Len(call.ids) = 2
    /\ call.ids[1] # call.ids[2]
    /\ HasRecord(Current, call.ids[1]) /\ ~HasRecord(Current, call.ids[2])
    /\ SamePriority(call.ids[1], call.ids[2], call.at)
    /\ ret.value = call.ids

(* C10: the output of rank is in non-increasing order of that priority.    *)
C10_DescendingPriority ==
    (call.op = "getWordsNeedingPractice" /\ ~ret.raised) =>
        \A i, j \in 1..Len(ret.value) :
            i < j => HigherOrSamePriority(ret.value[i], ret.value[j], call.at)

\* Two answered words come out against their input order: the fresher word
\* with the lower correct rate outranks the staler word with the higher one.
C10_Witness ==
    /\ call.op = "getWordsNeedingPractice"
    /\ Len(call.ids) = 2
    /\ ret.value = <<call.ids[2], call.ids[1]>>
    /\ HasRecord(Current, call.ids[1]) /\ HasRecord(Current, call.ids[2])
    /\ WordNow(call.ids[1]).lastStudied.ms < WordNow(call.ids[2]).lastStudied.ms
    /\ WordNow(call.ids[1]).correctCount * TotalNow(call.ids[2])
          > WordNow(call.ids[2]).correctCount * TotalNow(call.ids[1])

----------------------------------------------------------------------------
(* The quiz generator *)

\* The last call was generateQuiz and it returned questions.
QuizReturned == call.op = "generateQuiz" /\ ~ret.raised

\* The word of the set with a given id, and the text a question of a type
\* shows for it as an option.
WordOfId(id) == CHOOSE w \in {Vocabulary[k] : k \in 1..Len(Vocabulary)} : w.id = id
OptionText(id, questionType) ==
    IF questionType = "definition" THEN WordOfId(id).definition ELSE WordOfId(id).term

\* The ids the questions of a quiz ask about.
Targets(questions) == {questions[k].word.id : k \in 1..Len(questions)}

(* C11: generateQuiz with fewer than 4 words (0, 1, 2 or 3) fails with an  *)
(* InsufficientWordsError, returns no questions and leaves the persisted   *)
(* document as it was.                                                     *)
C11_InsufficientWordsError ==
    (call.op = "generateQuiz" /\ Len(request.words) < 4) =>
        /\ ret.raised
        /\ ret.value.name = "InsufficientWordsError"

(* C12: for at least 4 words and a count of at least 1, generateQuiz       *)
(* succeeds and returns exactly min(count, number of words) questions.     *)
C12_QuestionCount ==
    (call.op = "generateQuiz" /\ Len(request.words) >= 4 /\ request.questionCount >= 1) =>
        /\ ~ret.raised
        /\ Len(ret.value) = IF request.questionCount <= Len(request.words)
                            THEN request.questionCount
                            ELSE Len(request.words)

\* A set of exactly 4 words asked for 10 questions yields 4.
C12_Witness ==
    /\ QuizReturned
    /\ Len(request.words) = 4
    /\ request.questionCount = 10
    /\ Len(ret.value) = 4

(* C13: for at least 4 words, every question has exactly 4 options, all    *)
(* different, and correctIndex is the one position that holds the target   *)
(* word's definition (type definition) or term (type term).                *)
C13_FourDistinctOptions ==
    QuizReturned =>
        \A k \in 1..Len(ret.value) :
            LET q == ret.value[k]
                correct == OptionText(q.word.id, q.questionType)
            IN  /\ Len(q.options) = 4
                /\ \A i, j \in 1..Len(q.options) : i # j => q.options[i] # q.options[j]
                /\ \A i \in 1..Len(q.options) :
                      (q.options[i] = correct) <=> (i = q.correctIndex + 1)

(* C14: the questions ask about exactly the first min(count, n) ids of the *)
(* ranking of the words' ids, each of them in one question, so that every  *)
(* selected word has a priority at least that of every word left out,      *)
(* whatever order the final shuffle gives the questions.                   *)
C14_TopPrioritySelected ==
    QuizReturned =>
        LET ranked == WordsNeedingPractice(Current, call.ids, call.at)
            m == IF request.questionCount <= Len(call.ids)
                 THEN request.questionCount ELSE Len(call.ids)
            targets == Targets(ret.value)
        IN  /\ targets = {ranked[k] : k \in 1..m}
            /\ \A id \in targets :
                  Cardinality({k \in 1..Len(ret.value) : ret.value[k].word.id = id}) = 1
            /\ \A s \in targets :
                  \A u \in {call.ids[k] : k \in 1..Len(call.ids)} \ targets :
                      HigherOrSamePriority(s, u, call.at)

\* Two questions out of five words: the word answered wrongly and the first
\* of the words never answered, returned in the order opposite to their rank,
\* while a word answered correctly is left out.
C14_Witness ==
    /\ QuizReturned
    /\ Len(call.ids) = 5
    /\ Len(ret.value) = 2
    /\ WordNow("w1").incorrectCount = 1 /\ WordNow("w1").correctCount = 0
    /\ WordNow("w2").correctCount = 1 /\ WordNow("w2").incorrectCount = 0
    /\ ret.value[2].word.id = "w1"
    /\ ret.value[1].word.id = call.ids[1]
    /\ "w2" \notin Targets(ret.value)

(* C15: the three distractor options of every question come from three    *)
(* different words of the list, none of them the target word, for every    *)
(* outcome of the random choices.                                          *)
C15_DistractorsAreOtherWords ==
    QuizReturned =>
        \A k \in 1..Len(ret.value) :
            LET q == ret.value[k]
                texts == <<OptionText(q.word.id, q.questionType)>> \o
                         [d \in 1..Len(q.distractors) |->
                              OptionText(q.distractors[d], q.questionType)]
            IN  /\ Len(q.distractors) = 3
                /\ \A i, j \in 1..3 : i # j => q.distractors[i] # q.distractors[j]
                /\ \A i \in 1..3 :
                      /\ q.distractors[i] # q.word.id
                      /\ \E n \in 1..Len(call.ids) : call.ids[n] = q.distractors[i]
                /\ \A i \in 1..Len(q.options) :
                      Occurrences(q.options, q.options[i]) = Occurrences(texts, q.options[i])
                /\ Len(q.options) = Len(texts)

\* A question over five words: one of the four other words is no distractor,
\* and the options are not in the order target, distractors.
C15_Witness ==
    /\ QuizReturned
    /\ Len(call.ids) = 5
    /\ \E k \in 1..Len(ret.value) :
          LET q == ret.value[k]
          IN  /\ \E n \in 1..5 :
                    /\ call.ids[n] # q.word.id
                    /\ \A i \in 1..3 : q.distractors[i] # call.ids[n]
              /\ q.correctIndex # 0

----------------------------------------------------------------------------
(* C16: after clearAllProgress and before any further write every read     *)
(* reflects the default document, whatever was done before the clear:      *)
(* getUserProgress returns the empty document, getWordProgress a default   *)
(* record, getSetStatistics counts every id as new.                        *)
ReadsOfDocument == {"getUserProgress", "getWordProgress", "getSetStatistics"}

ReflectsDefault(op, ids, value) ==
    CASE op = "getUserProgress" -> value = createDefaultUserProgress
      [] op = "getWordProgress" -> value = createDefaultWordProgress(ids[1])
      [] op = "getSetStatistics" ->
            value = [mastered |-> 0, learning |-> 0, new |-> Len(ids), total |-> Len(ids)]

C16_ReadsAfterClear ==
    /\ [](call.op = "clearAllProgress" => Current = createDefaultUserProgress)
    /\ [][(Current = createDefaultUserProgress /\ call'.op \in ReadsOfDocument) =>
             /\ Current' = createDefaultUserProgress
             /\ ~ret'.raised
             /\ ReflectsDefault(call'.op, call'.ids, ret'.value)]_vars

\* The clear has returned, in a browser, and a read finds the default document.
C16_Witness ==
    /\ call.op = "clearAllProgress"
    /\ hasWindow
    /\ stored = NoItem
    /\ Current = createDefaultUserProgress

C18_SessionCounted ==
    [][/\ startStudySession =>
            /\ Current'.totalStudySessions = Current.totalStudySessions + 1
            /\ ~Current'.lastStudySession.null
            /\ Current'.words = Current.words
       /\ clearAllProgress => Current'.totalStudySessions = 0
       /\ (~startStudySession /\ ~clearAllProgress) =>
            Current'.totalStudySessions = Current.totalStudySessions]_vars

\* The second session since the last clear, over a document with records.
C18_Witness ==
    /\ call.op = "startStudySession"
    /\ Current.totalStudySessions = 2
    /\ ~Current.lastStudySession.null
    /\ DOMAIN Current.words # {}

(* C19: every quiz answer appends one attempt, with the correctness and    *)
(* the response time given, to the end of the word's attempts, and the     *)
(* average response time times the number of attempts is the sum of the    *)
(* stored response times for every word with an attempt; a flashcard       *)
(* answer changes neither the attempts nor the average.                    *)
RECURSIVE TotalTime(_)
TotalTime(attempts) ==
    IF attempts = <<>> THEN 0 ELSE Head(attempts).responseTime + TotalTime(Tail(attempts))

ReadOps == {"getUserProgress", "getWordProgress", "getSetStatistics",
            "getWordsNeedingPractice", "generateQuiz"}

C20_ReadsLeaveStoreAlone ==
    [][call'.op \in ReadOps =>
          /\ stored' = stored
          /\ (call'.op = "getWordProgress" /\ ~ret'.raised
                /\ ~HasRecord(Current, call'.ids[1])) =>
                /\ ret'.value = createDefaultWordProgress(call'.ids[1])
                /\ ~HasRecord(Current', call'.ids[1])]_vars

\* getWordProgress returned a default record for a word without a record
\* while another word has one.
C20_Witness ==
    /\ call.op = "getWordProgress"
    /\ ~ret.raised
    /\ ret.value = createDefaultWordProgress(call.ids[1])
    /\ ~HasRecord(Current, call.ids[1])
    /\ DOMAIN Current.words # {}

----------------------------------------------------------------------------
(* The scorer *)

ScoreReturned == call.op = "calculateScore"
RatingReturned == call.op = "getPerformanceRating"
ShuffleReturned == call.op = "shuffleArray"

(* C22: for whole numbers 0 <= correct <= total, calculateScore returns 0  *)
(* when total is 0 and otherwise an integer of 0..100 that is no further   *)
(* than one half from 100 * correct / total; calculateScore(0, 0) = 0,     *)
(* calculateScore(7, 10) = 70 and calculateScore(1, 3) = 33.               *)
C22_ScoreIsRoundedPercentage ==
    ScoreReturned =>
        LET correct == call.ids[1]
            total == call.ids[2]
            score == ret.value
        IN  /\ ~ret.raised
            /\ total = 0 => score = 0
            /\ total > 0 =>
                  /\ score \in 0..100
                  /\ 2 * (score * total - 100 * correct) <= total
                  /\ 2 * (100 * correct - score * total) <= total
            /\ (correct = 7 /\ total = 10) => score = 70
            /\ (correct = 1 /\ total = 3) => score = 33

\* The score of 2 of 3, which is not a whole percentage and is rounded up.
C22_Witness ==
    /\ ScoreReturned
    /\ call.ids = <<2, 3>>
    /\ ret.value = 67

(* C23: getPerformanceRating returns excellent exactly when the accuracy   *)
(* is at least 90 and the average response time is below 3000 ms;          *)
(* otherwise good exactly when the accuracy is at least 70; otherwise fair *)
(* exactly when it is at least 50; otherwise needs-practice.               *)
C23_RatingLabels ==
    RatingReturned =>
        LET accuracy == call.ids[1]
            time == call.ids[2]
            fast == time.n < 3000 * time.d
            rating == ret.value
        IN  /\ ~ret.raised
            /\ rating \in {"excellent", "good", "fair", "needs-practice"}
            /\ rating = "excellent" <=> (accuracy >= 90 /\ fast)
            /\ rating = "good" <=> (accuracy >= 70 /\ ~(accuracy >= 90 /\ fast))
            /\ rating = "fair" <=> (accuracy >= 50 /\ accuracy < 70)
            /\ rating = "needs-practice" <=> accuracy < 50

\* A perfect score answered at exactly 3000 ms a question is good, not
\* excellent.
C23_Witness ==
    /\ RatingReturned
    /\ call.ids = <<100, Frac(3000, 1)>>
    /\ ret.value = "good"

----------------------------------------------------------------------------
(* The store over a value that is not a progress document *)

StoreOps == {"getWordProgress", "updateWordFromFlashcard", "updateWordFromQuiz",
             "startStudySession", "getSetStatistics", "getWordsNeedingPractice"}

(* C25: whatever text the browser holds under the key, also one that       *)
(* parses to a value that is not a progress document (JSON null, an        *)
(* object without a words map), every operation of the store completes     *)
(* without raising.                                                        *)
C25_NonDocumentTolerated ==
    call.op \in StoreOps => ~ret.raised

----------------------------------------------------------------------------
(* What a recording leaves alone *)

\* The document after a step differs from the one before in the record of w
\* at most.
OnlyRecordChanged(w) ==
    /\ DOMAIN Current'.words = DOMAIN Current.words \cup {w}
    /\ \A v \in DOMAIN Current.words \ {w} : Current'.words[v] = Current.words[v]
    /\ Current'.lastStudySession = Current.lastStudySession
    /\ Current'.totalStudySessions = Current.totalStudySessions

(* C26: a flashcard or quiz recording for a word changes the record of     *)
(* that word only: the records of all other words, lastStudySession and    *)
(* totalStudySessions are after the call what they were before it.         *)
C26_RecordingFrame ==
    [][/\ \A w \in WordIds, b \in BOOLEAN :
             updateWordFromFlashcard(w, b) => OnlyRecordChanged(w)
       /\ \A w \in WordIds, b \in BOOLEAN, rt \in ResponseTimes :
             updateWordFromQuiz(w, b, rt) => OnlyRecordChanged(w)]_vars

\* A recording into a document that holds the record of another word and a
\* started session.
C26_Witness ==
    /\ call.op \in {"updateWordFromFlashcard", "updateWordFromQuiz"}
    /\ Cardinality(DOMAIN Current.words) = 2
    /\ \E w \in DOMAIN Current.words :
          TotalNow(w) = 2 /\ WordNow(w).lastStudied = ToISOString(call.at)
    /\ Current.totalStudySessions = 1
    /\ ~Current.lastStudySession.null

----------------------------------------------------------------------------
(* The records a document holds *)

Unrecorded(ids) == Cardinality({k \in 1..Len(ids) : ~HasRecord(Current, ids[k])})

(* C27: every record of the document has correctCount + incorrectCount of  *)
(* at least 1, a lastStudied timestamp and a status other than new; so the *)
(* new count of getSetStatistics is, for every list of ids, the number of  *)
(* listed ids without a record, and getWordsNeedingPractice meets no       *)
(* record without attempts or without a lastStudied timestamp (its         *)
(* constant 30 is never used).                                             *)
C27_RecordsAreStudied ==
    /\ \A w \in DOMAIN Current.words :
          /\ TotalNow(w) >= 1
          /\ ~WordNow(w).lastStudied.null
          /\ WordNow(w).status # "new"
          /\ DaysSinceStudied(WordNow(w), now)
                = Frac(now - DateGetTime(WordNow(w).lastStudied), HoursPerDay)
    /\ \A ids \in IdLists : SetStatistics(Current, ids).new = Unrecorded(ids)

\* A document with the records of two words, one written by a flashcard
\* answer and one by a quiz answer.
C27_Witness ==
    /\ call.op \in {"updateWordFromFlashcard", "updateWordFromQuiz"}
    /\ Cardinality(DOMAIN Current.words) = 2
    /\ \E w, v \in DOMAIN Current.words :
          /\ Len(WordNow(w).quizAttempts) = 1
          /\ TotalNow(w) = 1
          /\ WordNow(v).quizAttempts = <<>>
          /\ TotalNow(v) = 1
    /\ SetStatistics(Current, <<"w0", "w1">>).new = 1

----------------------------------------------------------------------------
(* Answers in another order, or from the other source *)

\* The counters and the status are computed from no response time: one
\* response time stands for all.
Answers == [source : {"flashcard", "quiz"}, correct : BOOLEAN]
SomeResponseTime == CHOOSE rt \in ResponseTimes : TRUE

\* The document after one more answer for w.
Answered(progress, w, a) ==
    IF a.source = "flashcard"
    THEN FlashcardUpdate(progress, w, a.correct, now)
    ELSE QuizUpdate(progress, w, a.correct, SomeResponseTime, now)

\* A number for each answer: every two different answers are compared once.
AnswerNumber(a) ==
    (IF a.source = "quiz" THEN 2 ELSE 0) + (IF a.correct THEN 1 ELSE 0)

Counters(progress, w) ==
    <<RecordOrDefault(progress, w).correctCount,
      RecordOrDefault(progress, w).incorrectCount,
      RecordOrDefault(progress, w).status>>

(* C28: the counters and the status of a word depend on how many correct   *)
(* and how many incorrect answers were recorded for it only: from every    *)
(* document, two answers recorded in either order give the same counters   *)
(* and status, and so does an answer recorded as a flashcard answer or as  *)
(* a quiz answer.                                                          *)
C28_OrderAndSourceIndependent ==
    \A w \in WordIds :
       /\ \A a, b \in Answers :
             AnswerNumber(a) < AnswerNumber(b) =>
                Counters(Answered(Answered(Current, w, a), w, b), w)
                   = Counters(Answered(Answered(Current, w, b), w, a), w)
       /\ \A correct \in BOOLEAN :
             Counters(Answered(Current, w, [source |-> "flashcard", correct |-> correct]), w)
                = Counters(Answered(Current, w, [source |-> "quiz", correct |-> correct]), w)

\* A word with two correct answers, one of each source: a third correct
\* answer makes it mastered, and with an incorrect one before or after it
\* the word is learning.
C28_Witness ==
    \E w \in WordIds :
       /\ Counters(Current, w) = <<2, 0, "learning">>
       /\ Len(WordNow(w).quizAttempts) = 1
       /\ Counters(FlashcardUpdate(Current, w, TRUE, now), w) = <<3, 0, "mastered">>
       /\ Counters(FlashcardUpdate(FlashcardUpdate(Current, w, TRUE, now), w, FALSE, now), w)
             = <<3, 1, "learning">>
       /\ Counters(FlashcardUpdate(FlashcardUpdate(Current, w, FALSE, now), w, TRUE, now), w)
             = <<3, 1, "learning">>

----------------------------------------------------------------------------
(* The quiz session *)

QuestionCount == Len(quiz.questions)

\* The k-th result is the answer to the k-th question.
ResultsFollowQuestions ==
    \A k \in 1..Len(quiz.results) :
       /\ k <= QuestionCount
       /\ quiz.results[k].questionId = quiz.questions[k].id
       /\ quiz.results[k].wordId = quiz.questions[k].word.id

SelectsAnswer == \E index \in OptionIndexes, responseTime \in ResponseTimes :
                    handleSelectAnswer(index, responseTime)

(* C29: in a quiz session every question is answered at most once: the     *)
(* results hold at most one entry for each question up to the current one, *)
(* in the order of the questions; 0 <= currentIndex < number of questions; *)
(* a selection while the result is shown changes neither the results nor   *)
(* the store; updateWordFromQuiz is called once with every entry added and *)
(* at no other step; and a finished session has one entry per question.    *)
C29_AnsweredOnce ==
    /\ [](/\ QuestionCount >= 1 => quiz.currentIndex \in 0..(QuestionCount - 1)
          /\ Len(quiz.results) <= quiz.currentIndex + 1
          /\ ResultsFollowQuestions
          /\ quiz.isFinished => Len(quiz.results) = QuestionCount)
    /\ [][/\ (quiz.showResult /\ SelectsAnswer) =>
                /\ quiz' = quiz
                /\ stored' = stored
                /\ completed' = completed
          /\ IF Len(quiz'.results) = Len(quiz.results) + 1
             THEN /\ call'.op = "updateWordFromQuiz"
                  /\ completed' = completed + 1
                  /\ SubSeq(quiz'.results, 1, Len(quiz.results)) = quiz.results
             ELSE /\ call'.op # "updateWordFromQuiz"
                  /\ completed' = completed
                  /\ quiz'.results \in {quiz.results, <<>>}]_vars

\* A selection while the result of the second question is shown: two
\* entries, two recordings.
C29_Witness ==
    /\ call.op = "handleSelectAnswer"
    /\ quiz.showResult
    /\ QuestionCount = 2
    /\ quiz.currentIndex = 1
    /\ Len(quiz.results) = 2
    /\ quiz.results[1].correct
    /\ ~quiz.results[2].correct
    /\ completed = 2

(* C30: a session of n >= 1 questions whose user goes on answering and     *)
(* pressing Next gets finished; it is finished by the press of Next at the *)
(* last question, index n - 1, after n answers, every earlier press moves  *)
(* one question on, and nothing else moves the index or finishes the       *)
(* session; Try Again leads from the results to an unfinished session at   *)
(* index 0 with no results.                                                *)
C30_SessionFinishes ==
    /\ (Screen(quiz) = "question") ~> quiz.isFinished
    /\ [](quiz.isFinished =>
             /\ Len(quiz.results) = QuestionCount
             /\ quiz.currentIndex = QuestionCount - 1)
    /\ [][/\ handleNext =>
                IF quiz.currentIndex = QuestionCount - 1
                THEN quiz'.isFinished /\ quiz'.currentIndex = quiz.currentIndex
                ELSE ~quiz'.isFinished /\ quiz'.currentIndex = quiz.currentIndex + 1
          /\ (quiz'.isFinished /\ ~quiz.isFinished) =>
                call'.op = "handleNext" /\ Len(quiz.results) = QuestionCount
          /\ quiz'.currentIndex # quiz.currentIndex =>
                \/ call'.op = "handleNext"
                \/ call'.op = "generateQuiz" /\ quiz.isFinished
          /\ (quiz.isFinished /\ call'.op = "generateQuiz") =>
                /\ ~quiz'.isFinished
                /\ quiz'.currentIndex = 0
                /\ quiz'.results = <<>>
                /\ ~quiz'.showResult
                /\ Len(quiz'.questions) = QuestionCount]_vars

\* A session of four questions, finished at the last of them.
C30_Witness ==
    /\ quiz.isFinished
    /\ call.op = "handleNext"
    /\ QuestionCount = 4
    /\ quiz.currentIndex = 3
    /\ Len(quiz.results) = 4

(* C21: no rate and no average is computed with a denominator of 0: every  *)
(* record a recording saved has at least one attempt, and its average      *)
(* response time is over at least one quiz attempt; the priority of every  *)
(* word is a quotient with a denominator of at least 1; and the results    *)
(* screen is shown with at least one result only.                          *)
C21_NoZeroDenominator ==
    /\ \A w \in DOMAIN Current.words :
          /\ TotalNow(w) >= 1
          /\ IF WordNow(w).quizAttempts = <<>>
             THEN WordNow(w).averageResponseTime.null
             ELSE /\ ~WordNow(w).averageResponseTime.null
                  /\ WordNow(w).averageResponseTime.d = Len(WordNow(w).quizAttempts)
    /\ \A k \in 1..Len(request.words) :
          Priority(Current, request.words[k].id, now).d >= 1
    /\ Screen(quiz) = "results" =>
          /\ ResultsScreen(quiz).totalCount >= 1
          /\ ~IsNaN(ResultsScreen(quiz).avgResponseTime)

\* The results screen of a session of one question, for a word with a
\* flashcard answer before.
C21_Witness ==
    /\ Screen(quiz) = "results"
    /\ ResultsScreen(quiz).totalCount = 1
    /\ ResultsScreen(quiz).accuracy = 0
    /\ \E w \in DOMAIN Current.words :
          TotalNow(w) = 2 /\ Len(WordNow(w).quizAttempts) = 1

----------------------------------------------------------------------------
(* The study page and the store *)

(* C31: after every flashcard answer on the study page the status the page *)
(* keeps for the word answered, its badge, is the status the store holds   *)
(* for that word.                                                          *)
C31_BadgeIsStoreStatus ==
    (call.op = "updateWordFromFlashcard" /\ ~ret.raised /\ study.results # <<>>) =>
        LET id == study.results[Len(study.results)].wordId
        IN  Badge(study, id) = WordNow(id).status

----------------------------------------------------------------------------
(* The count of a quiz *)

(* C32: for at least 4 words and every integer count, zero and negative    *)
(* counts too, generateQuiz returns at most max(0, count) questions; a     *)
(* count of 0 or less gives an empty quiz.                                 *)
C32_AtMostCount ==
    (QuizReturned /\ Len(request.words) >= 4) =>
        Len(ret.value) <= (IF request.questionCount > 0 THEN request.questionCount ELSE 0)

=============================================================================
